---------------------------- MODULE Spec2Model ----------------------------
(***************************************************************************)
(* Model of the declaration-file comparators of DTSGeneration:             *)
(*   assets/comparison/compare.ts             (predicted vs expected,      *)
(*                                             first-match witnesses)      *)
(*   assets/typescript_comparison/comparison.ts (generated vs manual,      *)
(*                                             all witnesses)              *)
(* The TypeScript checker is an external oracle: a type is an opaque id    *)
(* and isTypeAssignableTo is an arbitrary binary relation over the ids     *)
(* that may also throw on a query.                                         *)
(***************************************************************************)
EXTENDS Integers, Sequences, FiniteSets, TLC

\* ------------------------------------------------------------------ bounds
\* longest export list of a module
MaxExports == 2

\* export names; a module uses each at most once
Names == {"f", "g", "h"}

\* the types of the program, opaque to the comparators: two of them let an
\* export be assignable to one export and not to another, in each direction
Types == {"T1", "T2"}
TypePairs == Types \X Types

\* the oracle throws on no query
NoPair == <<"none", "none">>

\* JavaScript null, as the value of subs[name]
Null == "null"

\* ------------------------------------------------------ symbols and modules
\* an exported symbol: getName() and the type the checker resolves for it
ExportSymbol == [name : Names, type : Types]

Range(s) == {s[i] : i \in 1..Len(s)}

\* symbol.exports is a Map keyed by name: names are unique, order is
\* insertion (declaration) order
ExportLists ==
  UNION {{s \in [1..n -> ExportSymbol] :
            \A i, j \in 1..n : s[i].name = s[j].name => i = j}
         : n \in 0..MaxExports}

\* a module symbol; symbol.exports may be undefined
ModuleSymbols ==
  {[hasExports |-> TRUE, exports |-> s] : s \in ExportLists}
    \cup {[hasExports |-> FALSE, exports |-> <<>>]}

getExportedSymbols(symbol) ==
  IF symbol.hasExports THEN symbol.exports ELSE <<>>

\* type of an exported symbol (getTypeOfSymbolAtLocation or
\* getDeclaredTypeOfSymbol, whichever the symbol calls for)
TypeOf(symbol) == symbol.type

\* checker = [assignable : SUBSET TypePairs, failing : a pair or NoPair]
\* "throw" | TRUE | FALSE answer of one query
QueryThrows(checker, typeA, typeB) == <<typeA, typeB>> = checker.failing

isTypeAssignableTo(checker, typeA, typeB) ==
  <<typeA, typeB>> \in checker.assignable

\* ---------------------------------------------------------------- numbers
\* a quotient n/d of two naturals, d > 0, kept as the pair
Div(n, d) == <<n, d>>
One == <<1, 1>>
Mul(p, q) == <<p[1] * q[1], p[2] * q[2]>>
NumEq(p, q) == p[1] * q[2] = q[1] * p[2]
NumLeq(p, q) == p[1] * q[2] <= q[1] * p[2]
Zero == <<0, 1>>

\* ------------------------------------------- compare.ts : isSubModule
Threw == [status |-> "threw"]
NoResult == [status |-> "none"]

\* as FirstScan, but the scan goes on after a match: the last match is kept
RECURSIVE FirstScanLast(_, _, _, _)
FirstScanLast(checker, exportsA, typeB, i) ==
  IF i > Len(exportsA) THEN Null
  ELSE IF QueryThrows(checker, TypeOf(exportsA[i]), typeB) THEN "threw"
  ELSE LET rest == FirstScanLast(checker, exportsA, typeB, i + 1) IN
       IF rest = Null /\ isTypeAssignableTo(checker, TypeOf(exportsA[i]), typeB)
       THEN exportsA[i].name
       ELSE rest

\* as FirstScan, but the scan ends after the export at i, assignable or not
FirstScanFirstOnly(checker, exportsA, typeB, i) ==
  IF i > Len(exportsA) THEN Null
  ELSE IF QueryThrows(checker, TypeOf(exportsA[i]), typeB) THEN "threw"
  ELSE IF isTypeAssignableTo(checker, TypeOf(exportsA[i]), typeB)
       THEN exportsA[i].name
       ELSE Null

\* inner loop, compare.ts 24-31: "threw", Null or the first assignable name
RECURSIVE FirstScan(_, _, _, _)
FirstScan(checker, exportsA, typeB, i) ==
  IF i > Len(exportsA) THEN Null
  ELSE IF QueryThrows(checker, TypeOf(exportsA[i]), typeB) THEN "threw"
  ELSE IF isTypeAssignableTo(checker, TypeOf(exportsA[i]), typeB)
       THEN exportsA[i].name
       ELSE FirstScan(checker, exportsA, typeB, i + 1)

\* the object isSubModule returns, compare.ts 33-37; num_subs and total
\* are the local num_subs and exportsB.length, kept for observation
isSubModuleReturnUnguarded(exportsB, subs, num_subs) ==
  [status |-> "ok",
   isSubModule |-> (num_subs = Len(exportsB)),
   subTypeFraction |-> Div(num_subs, Len(exportsB)),
   subTypes |-> subs,
   num_subs |-> num_subs,
   total |-> Len(exportsB)]

isSubModuleReturn(exportsB, subs, num_subs) ==
  [status |-> "ok",
   isSubModule |-> (num_subs = Len(exportsB)),
   subTypeFraction |-> IF Len(exportsB) > 0
                       THEN Div(num_subs, Len(exportsB)) ELSE One,
   subTypes |-> subs,
   num_subs |-> num_subs,
   total |-> Len(exportsB)]

\* as FirstLoop, but num_subs grows by one for every assignable source export
RECURSIVE FirstLoopCountAll(_, _, _, _, _, _)
FirstLoopCountAll(checker, exportsA, exportsB, j, subs, num_subs) ==
  IF j > Len(exportsB)
  THEN isSubModuleReturn(exportsB, subs, num_subs)
  ELSE LET w == FirstScan(checker, exportsA, TypeOf(exportsB[j]), 1) IN
       IF w = "threw" THEN Threw
       ELSE FirstLoopCountAll(checker, exportsA, exportsB, j + 1,
              (exportsB[j].name :> w) @@ subs,
              num_subs + Cardinality({i \in 1..Len(exportsA) :
                 isTypeAssignableTo(checker, TypeOf(exportsA[i]),
                                    TypeOf(exportsB[j]))}))

\* outer loop, compare.ts 21-32, from target index j with the loop state
RECURSIVE FirstLoop(_, _, _, _, _, _)
FirstLoop(checker, exportsA, exportsB, j, subs, num_subs) ==
  IF j > Len(exportsB)
  THEN isSubModuleReturn(exportsB, subs, num_subs)
  ELSE LET w == FirstScan(checker, exportsA, TypeOf(exportsB[j]), 1) IN
       IF w = "threw" THEN Threw
       ELSE FirstLoop(checker, exportsA, exportsB, j + 1,
                      (exportsB[j].name :> w) @@ subs,
                      IF w # Null THEN num_subs + 1 ELSE num_subs)

EmptyMap == [x \in {} |-> Null]

isSubModule(checker, moduleA, moduleB) ==
  FirstLoop(checker, getExportedSymbols(moduleA), getExportedSymbols(moduleB),
            1, EmptyMap, 0)

\* ------------------------- comparison.ts : areContainersAssignable
\* as AllScan, but a match is put in front of the list
RECURSIVE AllScanPrepend(_, _, _, _, _)
AllScanPrepend(checker, exportsA, typeB, i, assignable) ==
  IF i > Len(exportsA) THEN [threw |-> FALSE, names |-> assignable]
  ELSE IF QueryThrows(checker, TypeOf(exportsA[i]), typeB)
       THEN [threw |-> TRUE, names |-> <<>>]
  ELSE IF isTypeAssignableTo(checker, TypeOf(exportsA[i]), typeB)
       THEN AllScanPrepend(checker, exportsA, typeB, i + 1,
                           <<exportsA[i].name>> \o assignable)
       ELSE AllScanPrepend(checker, exportsA, typeB, i + 1, assignable)

\* as AllScan, but the scan ends at the first match
RECURSIVE AllScanBreak(_, _, _, _, _)
AllScanBreak(checker, exportsA, typeB, i, assignable) ==
  IF i > Len(exportsA) THEN [threw |-> FALSE, names |-> assignable]
  ELSE IF QueryThrows(checker, TypeOf(exportsA[i]), typeB)
       THEN [threw |-> TRUE, names |-> <<>>]
  ELSE IF isTypeAssignableTo(checker, TypeOf(exportsA[i]), typeB)
       THEN [threw |-> FALSE, names |-> Append(assignable, exportsA[i].name)]
       ELSE AllScanBreak(checker, exportsA, typeB, i + 1, assignable)

\* inner loop, comparison.ts 22-29: the pushed names, or threw
RECURSIVE AllScan(_, _, _, _, _)
AllScan(checker, exportsA, typeB, i, assignable) ==
  IF i > Len(exportsA) THEN [threw |-> FALSE, names |-> assignable]
  ELSE IF QueryThrows(checker, TypeOf(exportsA[i]), typeB)
       THEN [threw |-> TRUE, names |-> <<>>]
  ELSE IF isTypeAssignableTo(checker, TypeOf(exportsA[i]), typeB)
       THEN AllScan(checker, exportsA, typeB, i + 1,
                    Append(assignable, exportsA[i].name))
       ELSE AllScan(checker, exportsA, typeB, i + 1, assignable)

\* as areContainersAssignableReturn, but without the filter on the lists
areContainersAssignableReturnNoFilter(exportsB, matches, allMatched) ==
  [status |-> "ok",
   matched |-> <<Cardinality(DOMAIN matches), Len(exportsB)>>,
   matches |-> matches,
   allMatched |-> allMatched]

\* the object areContainersAssignable returns, comparison.ts 36: matched is
\* the string k/n, kept as the pair of its two numbers; allMatched is the
\* local of that name, kept for observation
areContainersAssignableReturn(exportsB, matches, allMatched) ==
  [status |-> "ok",
   matched |-> <<Cardinality({n \in DOMAIN matches : Len(matches[n]) > 0}),
                 Len(exportsB)>>,
   matches |-> matches,
   allMatched |-> allMatched]

\* outer loop, comparison.ts 18-35
RECURSIVE AllLoop(_, _, _, _, _, _)
AllLoop(checker, exportsA, exportsB, j, matches, allMatched) ==
  IF j > Len(exportsB)
  THEN areContainersAssignableReturn(exportsB, matches, allMatched)
  ELSE LET r == AllScan(checker, exportsA, TypeOf(exportsB[j]), 1, <<>>) IN
       IF r.threw THEN Threw
       ELSE AllLoop(checker, exportsA, exportsB, j + 1,
                    (exportsB[j].name :> r.names) @@ matches,
                    allMatched /\ Len(r.names) > 0)

areContainersAssignable(checker, moduleA, moduleB) ==
  AllLoop(checker, getExportedSymbols(moduleA), getExportedSymbols(moduleB),
          1, EmptyMap, TRUE)


\* ------------------------------------------------------------------- state
VARIABLES
  script,          \* which comparator runs: "compare" or "comparison"
  pc,              \* position of main()
  fileA, fileB,    \* what the program finds at the two fixed paths
  assignable,      \* the checker's assignability relation
  resultA, resultB,\* the two directional results of main()
  comparison_json, \* the file comparison.json
  error,           \* message of the uncaught Error, "" if none
  source, target,  \* arguments of a direct call of the two engines
  first, all,      \* results of isSubModule / areContainersAssignable
  prevFirst, prevAll  \* their results before the last export was added

vars == <<script, pc, fileA, fileB, assignable, resultA, resultB,
          comparison_json, error, source, target, first, all,
          prevFirst, prevAll>>

mainVars == <<script, pc, fileA, fileB, resultA, resultB,
              comparison_json, error>>
engineVars == <<source, target, first, all, prevFirst, prevAll>>

EmptyModule == [hasExports |-> FALSE, exports |-> <<>>]

\* getSourceFile(path) is undefined / getSymbolAtLocation(file) is undefined
\* / the module symbol of the file
Inputs ==
  {[found |-> FALSE, hasSymbol |-> FALSE, symbol |-> EmptyModule],
   [found |-> TRUE, hasSymbol |-> FALSE, symbol |-> EmptyModule]}
    \cup {[found |-> TRUE, hasSymbol |-> TRUE, symbol |-> m] :
            m \in ModuleSymbols}

NoFile == [written |-> FALSE]

\* the checkers a call with (moduleA, moduleB) can meet: the relation rel,
\* throwing on one of the type pairs the call can ask about, or on none
Checkers(rel, moduleA, moduleB) ==
  {[assignable |-> rel, failing |-> p] :
     p \in {<<TypeOf(a), TypeOf(b)>> :
              a \in Range(getExportedSymbols(moduleA)),
              b \in Range(getExportedSymbols(moduleB))} \cup {NoPair}}

\* --------------------------------------------------- compare.ts : main
InitMain ==
  /\ script \in {"compare", "comparison"}
  /\ pc = "start"
  /\ fileA \in Inputs
  /\ fileB \in Inputs
  /\ assignable \in SUBSET TypePairs
  /\ resultA = NoResult
  /\ resultB = NoResult
  /\ comparison_json = NoFile
  /\ error = ""
  /\ source = EmptyModule
  /\ target = EmptyModule
  /\ first = NoResult
  /\ all = NoResult
  /\ prevFirst = NoResult
  /\ prevAll = NoResult

\* compare.ts 53-59
MainSourceFiles ==
  /\ script = "compare"
  /\ pc = "start"
  /\ IF ~fileA.found \/ ~fileB.found
     THEN pc' = "error" /\ error' = "Source files not found"
     ELSE pc' = "files" /\ error' = error
  /\ UNCHANGED <<script, fileA, fileB, assignable, resultA, resultB,
                 comparison_json, engineVars>>

\* as MainSymbols, but only the symbol of predicted.d.ts is tested
MainSymbolsOnlyA ==
  /\ script = "compare"
  /\ pc = "files"
  /\ IF ~fileA.hasSymbol
     THEN pc' = "error" /\ error' = "Symbol not found"
     ELSE pc' = "symbols" /\ error' = error
  /\ UNCHANGED <<script, fileA, fileB, assignable, resultA, resultB,
                 comparison_json, engineVars>>

\* compare.ts 60-62
MainSymbols ==
  /\ script = "compare"
  /\ pc = "files"
  /\ IF ~fileA.hasSymbol \/ ~fileB.hasSymbol
     THEN pc' = "error" /\ error' = "Symbol not found"
     ELSE pc' = "symbols" /\ error' = error
  /\ UNCHANGED <<script, fileA, fileB, assignable, resultA, resultB,
                 comparison_json, engineVars>>

\* compare.ts 63
MainResultA ==
  /\ script = "compare"
  /\ pc = "symbols"
  /\ \E checker \in Checkers(assignable, fileA.symbol, fileB.symbol) :
       LET r == isSubModule(checker, fileA.symbol, fileB.symbol) IN
       IF r.status = "threw"
       THEN pc' = "error" /\ error' = "checker" /\ resultA' = resultA
       ELSE pc' = "resultA" /\ error' = error /\ resultA' = r
  /\ UNCHANGED <<script, fileA, fileB, assignable, resultB,
                 comparison_json, engineVars>>

\* compare.ts 64
MainResultB ==
  /\ script = "compare"
  /\ pc = "resultA"
  /\ \E checker \in Checkers(assignable, fileB.symbol, fileA.symbol) :
       LET r == isSubModule(checker, fileB.symbol, fileA.symbol) IN
       IF r.status = "threw"
       THEN pc' = "error" /\ error' = "checker" /\ resultB' = resultB
       ELSE pc' = "resultB" /\ error' = error /\ resultB' = r
  /\ UNCHANGED <<script, fileA, fileB, assignable, resultA,
                 comparison_json, engineVars>>

\* as Result, but the two verdicts taken from the other relation
ResultSwapped(rA, rB) ==
  [isSound |-> rA.isSubModule,
   soundness |-> rB.subTypeFraction,
   isComplete |-> rB.isSubModule,
   completeness |-> rA.subTypeFraction,
   isEquivalent |-> (rA.isSubModule /\ rB.isSubModule),
   equivalence |-> Mul(rA.subTypeFraction, rB.subTypeFraction),
   predicted_to_expected_sub |-> rB.subTypes,
   expected_to_predicted_sub |-> rA.subTypes]

\* as Result, but isEquivalent is a disjunction
ResultOr(rA, rB) ==
  [isSound |-> rB.isSubModule,
   soundness |-> rB.subTypeFraction,
   isComplete |-> rA.isSubModule,
   completeness |-> rA.subTypeFraction,
   isEquivalent |-> (rA.isSubModule \/ rB.isSubModule),
   equivalence |-> Mul(rA.subTypeFraction, rB.subTypeFraction),
   predicted_to_expected_sub |-> rB.subTypes,
   expected_to_predicted_sub |-> rA.subTypes]

\* compare.ts 65-76
Result(rA, rB) ==
  [isSound |-> rB.isSubModule,
   soundness |-> rB.subTypeFraction,
   isComplete |-> rA.isSubModule,
   completeness |-> rA.subTypeFraction,
   isEquivalent |-> (rA.isSubModule /\ rB.isSubModule),
   equivalence |-> Mul(rA.subTypeFraction, rB.subTypeFraction),
   predicted_to_expected_sub |-> rB.subTypes,
   expected_to_predicted_sub |-> rA.subTypes]

\* compare.ts 65-77
MainWrite ==
  /\ script = "compare"
  /\ pc = "resultB"
  /\ comparison_json' = [written |-> TRUE, content |-> Result(resultA, resultB)]
  /\ pc' = "done"
  /\ UNCHANGED <<script, fileA, fileB, assignable, resultA, resultB,
                 error, engineVars>>

\* ------------------------------------------------ comparison.ts : main
\* comparison.ts 40-46
TcSourceFiles ==
  /\ script = "comparison"
  /\ pc = "start"
  /\ IF ~fileA.found \/ ~fileB.found
     THEN pc' = "error" /\ error' = "Source files not found"
     ELSE pc' = "files" /\ error' = error
  /\ UNCHANGED <<script, fileA, fileB, assignable, resultA, resultB,
                 comparison_json, engineVars>>

\* comparison.ts 47-49
TcSymbols ==
  /\ script = "comparison"
  /\ pc = "files"
  /\ IF ~fileA.hasSymbol \/ ~fileB.hasSymbol
     THEN pc' = "error" /\ error' = "Symbol not found"
     ELSE pc' = "symbols" /\ error' = error
  /\ UNCHANGED <<script, fileA, fileB, assignable, resultA, resultB,
                 comparison_json, engineVars>>

\* comparison.ts 51
TcResultA ==
  /\ script = "comparison"
  /\ pc = "symbols"
  /\ \E checker \in Checkers(assignable, fileA.symbol, fileB.symbol) :
       LET r == areContainersAssignable(checker, fileA.symbol, fileB.symbol) IN
       IF r.status = "threw"
       THEN pc' = "error" /\ error' = "checker" /\ resultA' = resultA
       ELSE pc' = "resultA" /\ error' = error /\ resultA' = r
  /\ UNCHANGED <<script, fileA, fileB, assignable, resultB,
                 comparison_json, engineVars>>

\* comparison.ts 53
TcResultB ==
  /\ script = "comparison"
  /\ pc = "resultA"
  /\ \E checker \in Checkers(assignable, fileB.symbol, fileA.symbol) :
       LET r == areContainersAssignable(checker, fileB.symbol, fileA.symbol) IN
       IF r.status = "threw"
       THEN pc' = "error" /\ error' = "checker" /\ resultB' = resultB
       ELSE pc' = "resultB" /\ error' = error /\ resultB' = r
  /\ UNCHANGED <<script, fileA, fileB, assignable, resultA,
                 comparison_json, engineVars>>

\* the object areContainersAssignable returns (comparison.ts 36)
Returned(r) == [matched |-> r.matched, matches |-> r.matches]

\* comparison.ts 56
TcWrite ==
  /\ script = "comparison"
  /\ pc = "resultB"
  /\ comparison_json' =
       [written |-> TRUE,
        content |-> [generated_sub_manual |-> Returned(resultA),
                     manual_sub_generated |-> Returned(resultB)]]
  /\ pc' = "done"
  /\ UNCHANGED <<script, fileA, fileB, assignable, resultA, resultB,
                 error, engineVars>>

Next ==
  \/ MainSourceFiles
  \/ MainSymbols
  \/ MainResultA
  \/ MainResultB
  \/ MainWrite
  \/ TcSourceFiles
  \/ TcSymbols
  \/ TcResultA
  \/ TcResultB
  \/ TcWrite

Spec == InitMain /\ [][Next]_vars

\* ----------------------------------- the two engines on the same arguments
InsertAt(s, e, pos) == SubSeq(s, 1, pos - 1) \o <<e>> \o SubSeq(s, pos, Len(s))

NeverFails(rel) == [assignable |-> rel, failing |-> NoPair]

InitEngine ==
  /\ script = "engine"
  /\ pc = "engine"
  /\ fileA = [found |-> FALSE, hasSymbol |-> FALSE, symbol |-> EmptyModule]
  /\ fileB = [found |-> FALSE, hasSymbol |-> FALSE, symbol |-> EmptyModule]
  /\ assignable \in SUBSET TypePairs
  /\ resultA = NoResult
  /\ resultB = NoResult
  /\ comparison_json = NoFile
  /\ error = ""
  /\ source \in ModuleSymbols
  /\ target \in ModuleSymbols
  /\ first = NoResult
  /\ all = NoResult
  /\ prevFirst = NoResult
  /\ prevAll = NoResult

\* isSubModule(checker, source, target), compare.ts 8-38
CallIsSubModule ==
  /\ first.status = "none"
  /\ first' = isSubModule(NeverFails(assignable), source, target)
  /\ UNCHANGED <<mainVars, assignable, source, target, all, prevFirst, prevAll>>

\* areContainersAssignable(checker, source, target), comparison.ts 8-37
CallAreContainersAssignable ==
  /\ all.status = "none"
  /\ all' = areContainersAssignable(NeverFails(assignable), source, target)
  /\ UNCHANGED <<mainVars, assignable, source, target, first, prevFirst,
                 prevAll>>

\* the source module gains one export, at any place of its declaration order
AddExport ==
  /\ first.status = "ok"
  /\ all.status = "ok"
  /\ Len(getExportedSymbols(source)) < MaxExports
  /\ \E e \in ExportSymbol, pos \in 1..(Len(getExportedSymbols(source)) + 1) :
       /\ \A x \in Range(getExportedSymbols(source)) : x.name # e.name
       /\ source' = [hasExports |-> TRUE,
                     exports |-> InsertAt(getExportedSymbols(source), e, pos)]
  /\ prevFirst' = first
  /\ prevAll' = all
  /\ first' = NoResult
  /\ all' = NoResult
  /\ UNCHANGED <<mainVars, assignable, target>>

NextEngine ==
  \/ CallIsSubModule
  \/ CallAreContainersAssignable
  \/ AddExport

SpecEngine == InitEngine /\ [][NextEngine]_vars


\* ------------------------------------------------------------- properties
\* the exports the programs compare
PredictedExports == getExportedSymbols(fileA.symbol)
ExpectedExports == getExportedSymbols(fileB.symbol)
SourceExports == getExportedSymbols(source)
TargetExports == getExportedSymbols(target)

\* indices of the exports of src whose type is assignable to that of t
WitnessIdx(src, t) ==
  {i \in 1..Len(src) : <<src[i].type, t.type>> \in assignable}

\* every export of tgt has an export of src assignable to it
Covers(src, tgt) == \A j \in 1..Len(tgt) : WitnessIdx(src, tgt[j]) # {}

\* number of exports of tgt that have an export of src assignable to them
Matched(src, tgt) ==
  Cardinality({j \in 1..Len(tgt) : WitnessIdx(src, tgt[j]) # {}})

MinOf(S) == CHOOSE m \in S : \A x \in S : m <= x

NameSet(exports) == {exports[i].name : i \in 1..Len(exports)}

Written == comparison_json.written
Report == comparison_json.content

\* C1 (as stated): in a report of compare.ts, isSound holds exactly when
\* every export of the expected module B has an export of the predicted
\* module A assignable to it, and isComplete exactly when every export of A
\* has an export of B assignable to it.
C1_AsStated ==
  (script = "compare" /\ Written) =>
     /\ Report.isSound <=> Covers(PredictedExports, ExpectedExports)
     /\ Report.isComplete <=> Covers(ExpectedExports, PredictedExports)

\* C1 (amended): in a report of compare.ts, isSound holds exactly when every
\* export of the predicted module A has an export of the expected module B
\* assignable to it, and isComplete exactly when every export of B has an
\* export of A assignable to it.
C1_SoundComplete ==
  (script = "compare" /\ Written) =>
     /\ Report.isSound <=> Covers(ExpectedExports, PredictedExports)
     /\ Report.isComplete <=> Covers(PredictedExports, ExpectedExports)

C1_Witness ==
  /\ script = "compare"
  /\ Written
  /\ Len(PredictedExports) = 2
  /\ Len(ExpectedExports) = 2
  /\ Report.isSound
  /\ ~Report.isComplete

\* C2: after isSubModule(source, target), subTypes has for every target
\* export the name of the earliest source export assignable to it, and null
\* exactly when no source export is assignable.
C2_FirstWitness ==
  first.status = "ok" =>
     /\ DOMAIN first.subTypes = NameSet(TargetExports)
     /\ \A j \in 1..Len(TargetExports) :
          LET W == WitnessIdx(SourceExports, TargetExports[j]) IN
          /\ first.subTypes[TargetExports[j].name] =
               IF W = {} THEN Null ELSE SourceExports[MinOf(W)].name
          /\ first.subTypes[TargetExports[j].name] = Null <=> W = {}

C2_Witness ==
  /\ first.status = "ok"
  /\ \E j \in 1..Len(TargetExports) :
       /\ Cardinality(WitnessIdx(SourceExports, TargetExports[j])) >= 2
       /\ first.subTypes[TargetExports[j].name] = SourceExports[1].name
  /\ \E j \in 1..Len(TargetExports) :
       /\ WitnessIdx(SourceExports, TargetExports[j]) = {}
       /\ first.subTypes[TargetExports[j].name] = Null

\* C3: after areContainersAssignable(source, target), matches has one entry
\* for every target export: the names of the source exports assignable to
\* it, each once, in source declaration order (empty when there is none).
C3_AllWitnesses ==
  all.status = "ok" =>
     /\ DOMAIN all.matches = NameSet(TargetExports)
     /\ \A j \in 1..Len(TargetExports) :
          LET t == TargetExports[j]
              S == SelectSeq(SourceExports,
                     LAMBDA x : <<x.type, t.type>> \in assignable)
              L == all.matches[t.name]
          IN /\ Len(L) = Len(S)
             /\ \A k \in 1..Len(L) : L[k] = S[k].name
             /\ \A k, m \in 1..Len(L) : L[k] = L[m] => k = m

C3_Witness ==
  /\ all.status = "ok"
  /\ \E n \in DOMAIN all.matches : Len(all.matches[n]) = 2
  /\ \E n \in DOMAIN all.matches : all.matches[n] = <<>>

\* C4: on the same (source, target) and relation, isSubModule's num_subs,
\* exportsB.length and isSubModule equal areContainersAssignable's k, n of
\* the matched string and allMatched.
C4_PolicyAgreement ==
  (first.status = "ok" /\ all.status = "ok") =>
     /\ first.num_subs = all.matched[1]
     /\ first.total = all.matched[2]
     /\ first.isSubModule = all.allMatched
     /\ first.isSubModule = (all.matched[1] = all.matched[2])

C4_Witness ==
  /\ first.status = "ok"
  /\ all.status = "ok"
  /\ first.num_subs = 1
  /\ first.total = 2
  /\ \E n \in DOMAIN all.matches : Len(all.matches[n]) = 2

\* C5: comparison.json is written only when both source files were found,
\* both module symbols resolved and both relations computed without a
\* throwing query, and it then holds the results of exactly these two
\* computations; a run that ended in an error has written nothing.
C5_NoPartialReport ==
  /\ pc = "error" => (~Written /\ error # "")
  /\ Written =>
       /\ pc = "done"
       /\ error = ""
       /\ fileA.found /\ fileB.found
       /\ fileA.hasSymbol /\ fileB.hasSymbol
       /\ resultA.status = "ok" /\ resultB.status = "ok"
       /\ script = "compare" =>
            Report = Result(
              isSubModule(NeverFails(assignable), fileA.symbol, fileB.symbol),
              isSubModule(NeverFails(assignable), fileB.symbol, fileA.symbol))
       /\ script = "comparison" =>
            Report =
              [generated_sub_manual |-> Returned(areContainersAssignable(
                 NeverFails(assignable), fileA.symbol, fileB.symbol)),
               manual_sub_generated |-> Returned(areContainersAssignable(
                 NeverFails(assignable), fileB.symbol, fileA.symbol))]
  /\ (~fileA.found \/ ~fileB.found \/ ~fileA.hasSymbol \/ ~fileB.hasSymbol)
       => ~Written

\* a query of the second relation threw after the first relation was computed
C5_Witness ==
  /\ pc = "error"
  /\ error = "checker"
  /\ resultA.status = "ok"
  /\ resultB.status = "none"
  /\ ~Written

\* C6: with a target module without exports, isSubModule returns
\* isSubModule = true and subTypeFraction = 1 from num_subs = 0 and
\* exportsB.length = 0, whatever the source; the fraction is no quotient by
\* zero. (areContainersAssignable reports 0/0 and allMatched.)
C6_VacuousTruth ==
  /\ (first.status = "ok" /\ Len(TargetExports) = 0) =>
       /\ first.isSubModule
       /\ first.subTypeFraction[2] # 0
       /\ NumEq(first.subTypeFraction, One)
       /\ first.num_subs = 0
       /\ first.total = 0
  /\ (all.status = "ok" /\ Len(TargetExports) = 0) =>
       /\ all.allMatched
       /\ all.matched = <<0, 0>>

C6_Witness ==
  /\ first.status = "ok"
  /\ all.status = "ok"
  /\ Len(TargetExports) = 0
  /\ Len(SourceExports) = 2
  /\ first.isSubModule

\* C7: in a report of compare.ts, isEquivalent = isComplete AND isSound and
\* equivalence = completeness * soundness, where (isComplete, completeness)
\* are those of resultA and (isSound, soundness) those of resultB.
C7_EquivalenceDecomposition ==
  (script = "compare" /\ Written) =>
     /\ Report.isEquivalent = (Report.isComplete /\ Report.isSound)
     /\ NumEq(Report.equivalence, Mul(Report.completeness, Report.soundness))
     /\ Report.isComplete = resultA.isSubModule
     /\ Report.completeness = resultA.subTypeFraction
     /\ Report.isSound = resultB.isSubModule
     /\ Report.soundness = resultB.subTypeFraction
     /\ Report.isComplete <=> NumEq(Report.completeness, One)
     /\ Report.isSound <=> NumEq(Report.soundness, One)

C7_Witness ==
  /\ script = "compare"
  /\ Written
  /\ Report.isSound
  /\ ~Report.isComplete
  /\ ~Report.isEquivalent
  /\ NumEq(Report.equivalence, Div(1, 2))

\* C8: after the source module gained one export (anywhere in its order),
\* with target and relation fixed, the matched count of either engine is at
\* least what it was before.
C8_Monotone ==
  /\ (prevFirst.status = "ok" /\ first.status = "ok") =>
       first.num_subs >= prevFirst.num_subs
  /\ (prevAll.status = "ok" /\ all.status = "ok") =>
       all.matched[1] >= prevAll.matched[1]

C8_Witness ==
  /\ prevFirst.status = "ok"
  /\ first.status = "ok"
  /\ prevAll.status = "ok"
  /\ all.status = "ok"
  /\ prevFirst.num_subs = 1
  /\ first.num_subs = 2
  /\ Len(SourceExports) = 2
  /\ first.subTypes[TargetExports[1].name] = SourceExports[1].name
  /\ first.subTypes[TargetExports[2].name] = SourceExports[1].name

\* C9: every subTypeFraction main() gets lies in [0, 1], num_subs being at
\* most exportsB.length, and so does the equivalence score of the report.
C9_FractionBounds ==
  script = "compare" =>
     /\ \A r \in {resultA, resultB} :
          r.status = "ok" =>
            /\ r.num_subs <= r.total
            /\ r.subTypeFraction[2] > 0
            /\ NumLeq(Zero, r.subTypeFraction)
            /\ NumLeq(r.subTypeFraction, One)
     /\ Written =>
          /\ Report.equivalence[2] > 0
          /\ NumLeq(Zero, Report.equivalence)
          /\ NumLeq(Report.equivalence, One)

C9_Witness ==
  /\ script = "compare"
  /\ Written
  /\ NumEq(Report.equivalence, Div(1, 4))
  /\ \E j \in 1..Len(ExpectedExports) :
       Cardinality(WitnessIdx(PredictedExports, ExpectedExports[j])) = 2

\* C10: for every target export, the name isSubModule records is the first
\* element of the list areContainersAssignable records, and null exactly
\* when that list is empty.
C10_FirstIsHeadOfAll ==
  (first.status = "ok" /\ all.status = "ok") =>
     /\ DOMAIN first.subTypes = DOMAIN all.matches
     /\ \A n \in DOMAIN all.matches :
          /\ first.subTypes[n] = Null <=> all.matches[n] = <<>>
          /\ all.matches[n] # <<>> => first.subTypes[n] = Head(all.matches[n])

C10_Witness ==
  /\ first.status = "ok"
  /\ all.status = "ok"
  /\ \E n \in DOMAIN all.matches :
       /\ Len(all.matches[n]) = 2
       /\ first.subTypes[n] = all.matches[n][1]
       /\ first.subTypes[n] # all.matches[n][2]
  /\ \E n \in DOMAIN all.matches :
       all.matches[n] = <<>> /\ first.subTypes[n] = Null

=============================================================================
